---- MODULE Spec2Model ----
(***************************************************************************)
(* FocusFlow: the Pomodoro timer (PomodoroTimer.tsx), the session recorder *)
(* and the task list (useFirestore.ts, TaskManager.tsx) as state machines. *)
(*                                                                         *)
(* React state is modelled by one variable per useState/useRef cell.  An   *)
(* event handler, the render it causes and the effects of that render are  *)
(* one action.  An async function is cut at every await on the store or on *)
(* the audio element: the code after the await is a separate action that   *)
(* works on the values its closure captured when the function was called.  *)
(***************************************************************************)
EXTENDS Integers, Sequences, FiniteSets, TLC

\* ---------------------------------------------------------------- bounds
MaxOverlap == 2         \* completion handlers in flight at once (SpecSession)
MaxPomodoros == 3       \* work completions counted by one timer (SpecTimer)
MaxSessions == 2        \* work completions of one timer in SpecSession
MaxNow == 91400         \* wall clock horizon, ms
MaxClock == 62000       \* wall clock horizon of SpecClock, ms
MaxLiveSessions == 2    \* work countdowns of SpecLive
MaxTasks == 4           \* documents in the tasks collection
MaxAdds == 2            \* tasks added through one TaskManager (SpecTasks)
MaxPendingOps == 2      \* task operations awaiting the store at once (SpecTasks)
MaxOrder == 4           \* highest order of a fetched task
MaxInterval == 3        \* largest longBreakInterval tried
EdgeWindow == 1         \* see AtEdge
MaxTicks == 1           \* ticks followed into one countdown (SpecSettings)
MaxDashboardTasks == 2  \* tasks of the dashboard's TaskManager (SpecDashboard)
MaxDashboardSessions == 1 \* work completions on the dashboard (SpecDashboard)
MaxProgressSessions == 2 \* stored sessions when the progress page opens (SpecProgress)
MaxEdited == 1          \* fields of the dialog changed from their initial value
MaxSettingsAdded == 1   \* userSettings documents added before the dialog is opened again

\* ------------------------------------------------------------- constants
NoTask == 0             \* selectedTaskId = null
NoTime == -1            \* startTimeRef.current = null
NoUser == 0             \* currentUser = null
NoTimer == [live |-> FALSE]
NoDoc == [exists |-> FALSE]
NoObs == [seen |-> FALSE]
User == 1
SecondsPerMinute == 60
MsPerSecond == 1000
Modes == {"work", "shortBreak", "longBreak"}
ClockSteps == {45000, 45700}
TaskIds == 1..MaxTasks
Filters == {"all", "active", "completed"}
Titles == {"a"}

\* ProgressTracker not mounted; mounted, it starts like this with loading = TRUE
NoProgress == [loading |-> FALSE, timeRange |-> "week", chartData |-> <<>>,
               taskStats |-> <<>>, totalPomodoros |-> 0, totalFocusTime |-> 0]

\* the initial state of useUserSettings
CodeDefaults == [workDuration |-> 25, shortBreakDuration |-> 5,
                 longBreakDuration |-> 15, longBreakInterval |-> 4]
\* a useUserSettings call (fetchSettings or updateSettings) that is not running;
\* the hook's loading and error states are returned to components that read
\* neither, and are left out
IdleFetch == [pc |-> "idle", arg |-> CodeDefaults]
\* showSettings = false: no TimerSettings mounted
NoDialog == [open |-> FALSE, settings |-> CodeDefaults, form |-> CodeDefaults,
             error |-> "", isSaving |-> FALSE, fetch |-> IdleFetch,
             save |-> IdleFetch]

VARIABLES
  \* PomodoroTimer component
  timeLeft, isActive, mode, selectedTaskId, completedPomodoros,
  startTimeRef, timerIdRef, handlers, settings, timerTasks,
  \* usePomodoroSessions instance of the timer
  sessions, sessionError, currentUser,
  \* document store
  storeSessions, storeTasks,
  \* useTasks instance of TaskManager, and TaskManager's filter
  tasks, taskError, pending, filter, nextTaskId, reorderObs,
  \* the userSettings collection, the settings fetch of the timer's
  \* useUserSettings instance, and the TimerSettings dialog with its own instance
  settingsDoc, settingsAdded, settingsFetch, dialog,
  \* the state of a mounted ProgressTracker, and the client's clock and time zone
  progress, calendar,
  \* environment and observation
  now, lastOp, workDone, interfered

timerVars == <<timeLeft, isActive, mode, selectedTaskId, completedPomodoros,
               startTimeRef, timerIdRef, handlers, settings, timerTasks>>
sessionVars == <<sessions, sessionError, currentUser, storeSessions>>
taskVars == <<tasks, taskError, pending, filter, nextTaskId, reorderObs>>
settingsVars == <<settingsDoc, settingsAdded, settingsFetch, dialog>>
progressVars == <<progress, calendar>>
vars == <<timerVars, sessionVars, storeTasks, taskVars, settingsVars, progressVars,
          now, lastOp, workDone, interfered>>

\* ------------------------------------------------------- pure functions

\* the switch on mode of the mode/settings effect, resetTimer and the render
Duration(m, s) ==
  CASE m = "work" -> s.workDuration * SecondsPerMinute
    [] m = "shortBreak" -> s.shortBreakDuration * SecondsPerMinute
    [] m = "longBreak" -> s.longBreakDuration * SecondsPerMinute

\* mutant of DurationInSeconds: Math.round in place of Math.floor
DurationRounded(start, end) == (end - start + MsPerSecond \div 2) \div MsPerSecond

\* Math.floor((endTime.getTime() - startTimeRef.current.getTime()) / 1000)
DurationInSeconds(start, end) == (end - start) \div MsPerSecond

\* mutant of NextMode: the long break taken at cp % K = 0
NextModeOffByOne(m, cp, s) ==
  IF m = "work"
    THEN IF cp % s.longBreakInterval = 0
           THEN "longBreak" ELSE "shortBreak"
    ELSE "work"

\* the mode handleTimerComplete advances to
NextMode(m, cp, s) ==
  IF m = "work"
    THEN IF cp % s.longBreakInterval = s.longBreakInterval - 1
           THEN "longBreak" ELSE "shortBreak"
    ELSE "work"

\* the mode/settings effect: runs when the mode of the new render differs
TimeLeftAfterMode(newMode) ==
  IF newMode # mode THEN Duration(newMode, settings) ELSE timeLeft

RemoveAt(s, i) == [k \in 1..(Len(s) - 1) |-> IF k < i THEN s[k] ELSE s[k + 1]]

\* what the render in which isActive turned true closes over
Closure ==
  [live |-> TRUE, mode |-> mode, task |-> selectedTaskId,
   cp |-> completedPomodoros, settings |-> settings,
   user |-> currentUser, sessions |-> sessions]

\* ------------------------------------------------------------ the timer

\* mutant of ToggleTimer: the test for a selected task left out
ToggleTimerUnguarded ==
  /\ isActive' = ~isActive
  /\ timerIdRef' = IF ~isActive THEN Closure ELSE NoTimer
  /\ startTimeRef' = IF ~isActive /\ startTimeRef = NoTime THEN now ELSE startTimeRef
  /\ interfered' = (interfered \/ (~isActive /\ handlers # <<>>))
  /\ lastOp' = [op |-> IF isActive THEN "pause" ELSE "start"]
  /\ UNCHANGED <<timeLeft, mode, selectedTaskId, completedPomodoros,
                 handlers, settings, timerTasks, sessionVars,
                 storeTasks, taskVars, progressVars, settingsVars, now, workDone>>

\* toggleTimer; the timer effect of the render that follows
ToggleTimer ==
  IF ~isActive /\ mode = "work" /\ selectedTaskId = NoTask
    THEN /\ lastOp' = [op |-> "alert"]
         /\ UNCHANGED <<timerVars, sessionVars, storeTasks, taskVars, progressVars, settingsVars, now, workDone, interfered>>
    ELSE /\ isActive' = ~isActive
         /\ timerIdRef' = IF ~isActive THEN Closure ELSE NoTimer
         /\ startTimeRef' = IF ~isActive /\ startTimeRef = NoTime
                              THEN now ELSE startTimeRef
         /\ interfered' = (interfered \/ (~isActive /\ handlers # <<>>))
         /\ lastOp' = [op |-> IF isActive THEN "pause" ELSE "start"]
         /\ UNCHANGED <<timeLeft, mode, selectedTaskId, completedPomodoros,
                        handlers, settings, timerTasks, sessionVars,
                        storeTasks, taskVars, progressVars, settingsVars, now, workDone>>

\* mutant of ResetTimer: startTimeRef.current = null left out
ResetTimerKeepsMarker ==
  /\ ~(isActive /\ timeLeft > 0)
  /\ isActive' = FALSE
  /\ timerIdRef' = NoTimer
  /\ timeLeft' = Duration(mode, settings)
  /\ interfered' = (interfered \/ handlers # <<>>)
  /\ lastOp' = [op |-> "reset", marker |-> startTimeRef, left |-> timeLeft]
  /\ UNCHANGED <<mode, selectedTaskId, completedPomodoros, handlers, settings,
                 startTimeRef, timerTasks, sessionVars, storeTasks, taskVars, progressVars, settingsVars,
                 now, workDone>>

\* resetTimer; the button is disabled while isActive && timeLeft > 0
ResetTimer ==
  /\ ~(isActive /\ timeLeft > 0)
  /\ isActive' = FALSE
  /\ timerIdRef' = NoTimer
  /\ timeLeft' = Duration(mode, settings)
  /\ startTimeRef' = NoTime
  /\ interfered' = (interfered \/ handlers # <<>>)
  /\ lastOp' = [op |-> "reset", marker |-> startTimeRef, left |-> timeLeft]
  /\ UNCHANGED <<mode, selectedTaskId, completedPomodoros, handlers, settings,
                 timerTasks, sessionVars, storeTasks, taskVars, progressVars, settingsVars, now, workDone>>

\* mutant of SwitchMode: the answer to window.confirm ignored
SwitchModeUnconfirmed(newMode, confirm) ==
  /\ isActive' = FALSE
  /\ timerIdRef' = NoTimer
  /\ mode' = newMode
  /\ timeLeft' = TimeLeftAfterMode(newMode)
  /\ startTimeRef' = IF isActive THEN NoTime ELSE startTimeRef
  /\ lastOp' = [op |-> "switch", to |-> newMode, confirm |-> confirm]
  /\ UNCHANGED <<selectedTaskId, completedPomodoros, handlers, settings,
                 timerTasks, sessionVars, storeTasks, taskVars, progressVars, settingsVars, now, workDone, interfered>>

\* switchMode(newMode); confirm is the answer window.confirm gives when the
\* timer is running (it is not asked otherwise)
SwitchMode(newMode, confirm) ==
  /\ IF isActive
       THEN IF confirm
              THEN /\ isActive' = FALSE
                   /\ timerIdRef' = NoTimer
                   /\ mode' = newMode
                   /\ timeLeft' = TimeLeftAfterMode(newMode)
                   /\ startTimeRef' = NoTime
                   /\ lastOp' = [op |-> "switch", to |-> newMode, confirm |-> confirm]
              ELSE /\ lastOp' = [op |-> "declined", to |-> newMode, confirm |-> confirm]
                   /\ UNCHANGED <<isActive, timerIdRef, mode, timeLeft, startTimeRef>>
       ELSE /\ mode' = newMode
            /\ timeLeft' = TimeLeftAfterMode(newMode)
            /\ lastOp' = [op |-> "switch", to |-> newMode, confirm |-> confirm]
            /\ UNCHANGED <<isActive, timerIdRef, startTimeRef>>
  /\ UNCHANGED <<selectedTaskId, completedPomodoros, handlers, settings,
                 timerTasks, sessionVars, storeTasks, taskVars, progressVars, settingsVars, now, workDone, interfered>>

\* the task <select>: rendered in work mode, disabled while active,
\* one option per task that is not completed plus the empty option
SelectTask(t) ==
  /\ mode = "work"
  /\ ~isActive
  /\ \/ t = NoTask
     \/ \E k \in 1..Len(timerTasks) : timerTasks[k].id = t /\ ~timerTasks[k].completed
  /\ selectedTaskId' = t
  /\ lastOp' = [op |-> "select"]
  /\ UNCHANGED <<timeLeft, isActive, mode, completedPomodoros, startTimeRef,
                 timerIdRef, handlers, settings, timerTasks, sessionVars,
                 storeTasks, taskVars, progressVars, settingsVars, now, workDone, interfered>>

\* the setInterval callback: setTimeLeft(prev => ...); at prev <= 1 it calls
\* the handleTimerComplete of the closure, which runs up to its first await;
\* at records the mode and the selection of the countdown, and the value the
\* countdown had (1, or 0 when the interval was started at zero), for the claims
Tick ==
  /\ timerIdRef.live
  /\ IF timeLeft <= 1
       THEN /\ timeLeft' = 0
            /\ isActive' = FALSE
            /\ timerIdRef' = NoTimer
            /\ handlers' = Append(handlers,
                 [pc |-> "audio", cl |-> timerIdRef, session |-> NoDoc, read |-> 0,
                  docRef |-> 0,
                  at |-> [mode |-> mode, task |-> selectedTaskId, from |-> timeLeft]])
            /\ lastOp' = [op |-> "zero"]
       ELSE /\ timeLeft' = timeLeft - 1
            /\ lastOp' = [op |-> "tick"]
            /\ UNCHANGED <<isActive, timerIdRef, handlers>>
  /\ UNCHANGED <<mode, selectedTaskId, completedPomodoros, startTimeRef, settings,
                 timerTasks, sessionVars, storeTasks, taskVars, progressVars, settingsVars, now, workDone, interfered>>

\* wall-clock time passing
Elapse(d) ==
  /\ now + d <= MaxNow
  /\ now' = now + d
  /\ lastOp' = [op |-> "elapse"]
  /\ UNCHANGED <<timerVars, sessionVars, storeTasks, taskVars, progressVars, settingsVars, workDone, interfered>>

\* ------------------------------------------- handleTimerComplete, addSession

\* handleTimerComplete from "Increment completed pomodoros" / "Reset start
\* time" to its end, and the mode/settings effect of the render that follows;
\* recorded says whether the branch that records a session was taken, result
\* what addSession returned ("notCalled" where it was not called), threw
\* whether it returned from its catch block
Finish(i, recorded, result, threw) ==
  LET cl == handlers[i].cl
      next == NextMode(cl.mode, cl.cp, cl.settings)
  IN /\ completedPomodoros' = IF recorded THEN completedPomodoros + 1
                                          ELSE completedPomodoros
     /\ startTimeRef' = NoTime
     /\ mode' = next
     /\ timeLeft' = TimeLeftAfterMode(next)
     /\ handlers' = RemoveAt(handlers, i)
     /\ workDone' = IF cl.mode = "work" THEN workDone + 1 ELSE workDone
     /\ lastOp' = [op |-> IF cl.mode = "work" THEN "afterWork" ELSE "afterBreak",
                   step |-> handlers[i].pc, result |-> result, threw |-> threw,
                   from |-> handlers[i].at.from, docRef |-> handlers[i].docRef,
                   session |-> handlers[i].session]
     /\ UNCHANGED <<isActive, selectedTaskId, timerIdRef, settings, timerTasks,
                    currentUser, taskVars, progressVars, settingsVars, now, interfered>>

\* audio.play() settled: the test of line 86, the session data, and
\* addSession up to its addDoc (or its return null without a user)
AfterAudio(i) ==
  LET h == handlers[i]
      cl == h.cl
  IN /\ h.pc = "audio"
     /\ IF cl.mode = "work" /\ cl.task # NoTask /\ startTimeRef # NoTime
          THEN IF cl.user = NoUser
                 THEN /\ Finish(i, TRUE, "null", FALSE)
                      /\ UNCHANGED <<sessions, sessionError, storeSessions, storeTasks>>
                 ELSE /\ handlers' = [handlers EXCEPT ![i] =
                           [h EXCEPT !.pc = "addDoc",
                                     !.session = [exists |-> TRUE,
                                                  taskId |-> cl.task,
                                                  startTime |-> startTimeRef,
                                                  endTime |-> now,
                                                  duration |-> DurationInSeconds(startTimeRef, now),
                                                  type |-> "work",
                                                  userId |-> cl.user]]]
                      /\ lastOp' = [op |-> "addSession"]
                      /\ UNCHANGED <<timeLeft, isActive, mode, selectedTaskId,
                                     completedPomodoros, startTimeRef, timerIdRef,
                                     settings, timerTasks, sessionVars, storeTasks,
                                     taskVars, progressVars, settingsVars, now, workDone, interfered>>
          ELSE /\ Finish(i, FALSE, "notCalled", FALSE)
               /\ UNCHANGED <<sessions, sessionError, storeSessions, storeTasks>>

\* mutant of AddDocSettled: addSession without its catch block, the rejection
\* ending handleTimerComplete at its await
AddDocSettledRethrows(i, ok) ==
  LET h == handlers[i]
      sessionWithId == [id |-> Len(storeSessions) + 1] @@ h.session
  IN /\ h.pc = "addDoc"
     /\ IF ok
          THEN /\ storeSessions' = Append(storeSessions, sessionWithId)
               /\ sessions' = <<sessionWithId>> \o h.cl.sessions
               /\ handlers' = [handlers EXCEPT ![i] =
                    [h EXCEPT !.pc = "getDoc", !.docRef = sessionWithId.id]]
               /\ lastOp' = [op |-> "sessionStored", from |-> h.at.from]
               /\ UNCHANGED <<timeLeft, isActive, mode, selectedTaskId,
                              completedPomodoros, startTimeRef, timerIdRef,
                              settings, timerTasks, sessionError, currentUser,
                              storeTasks, taskVars, progressVars, settingsVars, now, workDone, interfered>>
          ELSE /\ handlers' = RemoveAt(handlers, i)
               /\ lastOp' = [op |-> "rejected"]
               /\ UNCHANGED <<timeLeft, isActive, mode, selectedTaskId,
                              completedPomodoros, startTimeRef, timerIdRef,
                              settings, timerTasks, sessionVars, storeTasks,
                              taskVars, progressVars, settingsVars, now, workDone, interfered>>

\* addDoc(collection(db, 'pomodoroSessions'), newSession) settled
AddDocSettled(i, ok) ==
  LET h == handlers[i]
      sessionWithId == [id |-> Len(storeSessions) + 1] @@ h.session
  IN /\ h.pc = "addDoc"
     /\ IF ok
          THEN /\ storeSessions' = Append(storeSessions, sessionWithId)
               /\ sessions' = <<sessionWithId>> \o h.cl.sessions
               /\ handlers' = [handlers EXCEPT ![i] =
                    [h EXCEPT !.pc = "getDoc", !.docRef = sessionWithId.id]]
               /\ lastOp' = [op |-> "sessionStored", from |-> h.at.from]
               /\ UNCHANGED <<timeLeft, isActive, mode, selectedTaskId,
                              completedPomodoros, startTimeRef, timerIdRef,
                              settings, timerTasks, sessionError, currentUser,
                              storeTasks, taskVars, progressVars, settingsVars, now, workDone, interfered>>
          ELSE /\ sessionError' = TRUE
               /\ Finish(i, TRUE, "null", TRUE)
               /\ UNCHANGED <<sessions, storeSessions, storeTasks>>

\* mutant of GetDocSettled: a missing task document is created with a count of 1
GetDocSettledCreatesTask(i, ok) ==
  LET h == handlers[i]
      taskDoc == storeTasks[h.session.taskId]
  IN /\ h.pc = "getDoc"
     /\ IF ok
          THEN IF taskDoc.exists
                 THEN /\ handlers' = [handlers EXCEPT ![i] =
                           [h EXCEPT !.pc = "updateDoc",
                                     !.read = taskDoc.pomodorosCompleted]]
                      /\ lastOp' = [op |-> "counterRead"]
                      /\ UNCHANGED <<timeLeft, isActive, mode, selectedTaskId,
                                     completedPomodoros, startTimeRef, timerIdRef,
                                     settings, timerTasks, sessionVars, storeTasks,
                                     taskVars, progressVars, settingsVars, now, workDone, interfered>>
                 ELSE /\ Finish(i, TRUE, "session", FALSE)
                      /\ storeTasks' = [storeTasks EXCEPT ![h.session.taskId] =
                                          [exists |-> TRUE, id |-> h.session.taskId,
                                           title |-> "a", completed |-> FALSE,
                                           order |-> 0, pomodorosCompleted |-> 1]]
                      /\ UNCHANGED <<sessions, sessionError, storeSessions>>
          ELSE /\ sessionError' = TRUE
               /\ Finish(i, TRUE, "null", TRUE)
               /\ UNCHANGED <<sessions, storeSessions, storeTasks>>

\* getDoc(taskRef) settled
GetDocSettled(i, ok) ==
  LET h == handlers[i]
      taskDoc == storeTasks[h.session.taskId]
  IN /\ h.pc = "getDoc"
     /\ IF ok
          THEN IF taskDoc.exists
                 THEN /\ handlers' = [handlers EXCEPT ![i] =
                           [h EXCEPT !.pc = "updateDoc",
                                     !.read = taskDoc.pomodorosCompleted]]
                      /\ lastOp' = [op |-> "counterRead"]
                      /\ UNCHANGED <<timeLeft, isActive, mode, selectedTaskId,
                                     completedPomodoros, startTimeRef, timerIdRef,
                                     settings, timerTasks, sessionVars, storeTasks,
                                     taskVars, progressVars, settingsVars, now, workDone, interfered>>
                 ELSE /\ Finish(i, TRUE, "session", FALSE)
                      /\ UNCHANGED <<sessions, sessionError, storeSessions, storeTasks>>
          ELSE /\ sessionError' = TRUE
               /\ Finish(i, TRUE, "null", TRUE)
               /\ UNCHANGED <<sessions, storeSessions, storeTasks>>

\* updateDoc(taskRef, {pomodorosCompleted: read + 1}) settled; the store
\* rejects an update of a document that does not exist
UpdateDocSettled(i, ok) ==
  LET h == handlers[i]
      id == h.session.taskId
  IN /\ h.pc = "updateDoc"
     /\ IF ok /\ storeTasks[id].exists
          THEN /\ storeTasks' = [storeTasks EXCEPT ![id].pomodorosCompleted = h.read + 1]
               /\ UNCHANGED sessionError
          ELSE /\ sessionError' = TRUE
               /\ UNCHANGED storeTasks
     /\ Finish(i, TRUE, IF ok /\ storeTasks[id].exists THEN "session" ELSE "null",
               ~(ok /\ storeTasks[id].exists))
     /\ UNCHANGED <<sessions, storeSessions>>

\* -------------------------------------------------------- the task list

\* a task as useTasks holds it; createdAt, updatedAt and description play
\* no part in any operation and are left out
Task(id, title, completed, order) ==
  [exists |-> TRUE, id |-> id, title |-> title, completed |-> completed,
   order |-> order, pomodorosCompleted |-> 0]

Ids(ts) == {ts[k].id : k \in 1..Len(ts)}

\* getFilteredTasks
FilteredTasks(ts, f) ==
  CASE f = "active" -> SelectSeq(ts, LAMBDA t : ~t.completed)
    [] f = "completed" -> SelectSeq(ts, LAMBDA t : t.completed)
    [] OTHER -> ts

\* reordered.splice(startIndex, 1) and reordered.splice(endIndex, 0, removed),
\* positions counted from 1
Move(ts, i, j) ==
  LET rest == [k \in 1..(Len(ts) - 1) |-> IF k < i THEN ts[k] ELSE ts[k + 1]]
  IN [k \in 1..Len(ts) |-> IF k < j THEN rest[k]
                            ELSE IF k = j THEN ts[i] ELSE rest[k - 1]]

\* one step of a stable sort: t goes after every element whose order is <= its own
RECURSIVE InsertByOrder(_, _)
InsertByOrder(sorted, t) ==
  IF sorted = <<>> THEN <<t>>
  ELSE IF sorted[Len(sorted)].order <= t.order THEN Append(sorted, t)
  ELSE Append(InsertByOrder(SubSeq(sorted, 1, Len(sorted) - 1), t), sorted[Len(sorted)])

\* mutant of SortByOrder: the comparator written (a, b) => b.order - a.order
RECURSIVE SortByOrderDescending(_)
SortByOrderDescending(ts) ==
  IF ts = <<>> THEN <<>>
  ELSE LET rest == SortByOrderDescending(SubSeq(ts, 1, Len(ts) - 1))
           t == ts[Len(ts)]
           n == Cardinality({k \in 1..Len(rest) : rest[k].order >= t.order})
       IN SubSeq(rest, 1, n) \o <<t>> \o SubSeq(rest, n + 1, Len(rest))

\* Array.prototype.sort((a, b) => a.order - b.order), which is stable
RECURSIVE SortByOrder(_)
SortByOrder(ts) ==
  IF ts = <<>> THEN <<>>
  ELSE InsertByOrder(SortByOrder(SubSeq(ts, 1, Len(ts) - 1)), ts[Len(ts)])

\* mutant of WithIndexOrder: the new orders placed after the highest order
WithOrderAfterHighest(ts) ==
  LET highest == IF ts = <<>> THEN -1
                 ELSE CHOOSE m \in {ts[k].order : k \in 1..Len(ts)} :
                        \A k \in 1..Len(ts) : ts[k].order <= m
  IN [k \in 1..Len(ts) |-> [ts[k] EXCEPT !.order = highest + k]]

\* .map((task, index) => ({...task, order: index}))
WithIndexOrder(ts) == [k \in 1..Len(ts) |-> [ts[k] EXCEPT !.order = k - 1]]

\* the list handleDragEnd passes to reorderTasks
DragResult(ts, f, i, j) ==
  LET filteredTasks == FilteredTasks(ts, f)
      reordered == Move(filteredTasks, i, j)
      nonFilteredTasks == SelectSeq(ts, LAMBDA t : t.id \notin Ids(filteredTasks))
      allTasks == SortByOrder(reordered \o nonFilteredTasks)
  IN WithIndexOrder(allTasks)

\* Math.max(...tasks.map(task => task.order)), or -1 for no tasks
HighestOrder(ts) ==
  IF Len(ts) > 0
    THEN CHOOSE m \in {ts[k].order : k \in 1..Len(ts)} :
           \A k \in 1..Len(ts) : ts[k].order <= m
    ELSE -1

\* the filter tabs
SetFilter(f) ==
  /\ filter' = f
  /\ lastOp' = [op |-> "filter"]
  /\ UNCHANGED <<tasks, taskError, pending, nextTaskId, reorderObs,
                 timerVars, progressVars, settingsVars, sessionVars, storeTasks, now, workDone, interfered>>

\* handleDragEnd with source index i and destination index j, and
\* reorderTasks up to its await Promise.all; before, filter, from and to
\* record the call for the claims
HandleDragEnd(i, j) ==
  /\ i \in 1..Len(FilteredTasks(tasks, filter))
  /\ j \in 1..Len(FilteredTasks(tasks, filter))
  /\ lastOp' = [op |-> "drag", from |-> i, to |-> j]
  /\ IF i = j \/ currentUser = NoUser
       THEN UNCHANGED pending
       ELSE LET updatedTasks == DragResult(tasks, filter, i, j)
            IN pending' = Append(pending,
                 [kind |-> "reorder", passed |-> updatedTasks,
                  list |-> WithIndexOrder(updatedTasks),
                  before |-> tasks, filter |-> filter, from |-> i, to |-> j])
  /\ UNCHANGED <<tasks, taskError, filter, nextTaskId, reorderObs,
                 timerVars, progressVars, settingsVars, sessionVars, storeTasks, now, workDone, interfered>>

\* the updateDoc calls of reorderTasks settled: those at positions oks were
\* written, the others rejected; a document that is gone rejects its update
ReorderSettled(n, oks) ==
  LET op == pending[n]
      written == {k \in oks : storeTasks[op.list[k].id].exists}
      ok == written = 1..Len(op.list)
  IN /\ op.kind = "reorder"
     /\ oks \subseteq 1..Len(op.list)
     /\ storeTasks' = [id \in TaskIds |->
          IF \E k \in written : op.list[k].id = id
            THEN [storeTasks[id] EXCEPT !.order =
                    op.list[CHOOSE k \in written : op.list[k].id = id].order]
            ELSE storeTasks[id]]
     /\ tasks' = IF ok THEN op.list ELSE tasks
     /\ taskError' = IF ok THEN taskError ELSE TRUE
     /\ pending' = RemoveAt(pending, n)
     /\ reorderObs' = IF ok THEN [seen |-> TRUE, result |-> op.list] ELSE reorderObs
     /\ lastOp' = [op |-> "reorderSettled", ok |-> ok, call |-> op,
                   prior |-> reorderObs, storeBefore |-> storeTasks]
     /\ UNCHANGED <<filter, nextTaskId,
                    timerVars, progressVars, settingsVars, sessionVars, now, workDone, interfered>>

\* {...task, ...updatedTask}; updatedAt is left out
Merge(task, data) ==
  [f \in DOMAIN task |-> IF f \in DOMAIN data THEN data[f] ELSE task[f]]

\* the documents of the tasks collection by ascending order, as
\* query(..., orderBy('order')) returns them; equal orders by document id
RECURSIVE StoreList(_)
StoreList(ids) ==
  IF ids = {} THEN <<>>
  ELSE LET first == CHOOSE a \in ids : \A b \in ids :
                      \/ storeTasks[a].order < storeTasks[b].order
                      \/ (storeTasks[a].order = storeTasks[b].order /\ a <= b)
       IN <<storeTasks[first]>> \o StoreList(ids \ {first})

\* fetchTasks, run when the component mounts
FetchTasks ==
  /\ tasks' = IF currentUser = NoUser THEN <<>>
              ELSE StoreList({id \in TaskIds : storeTasks[id].exists})
  /\ lastOp' = [op |-> "fetch"]
  /\ UNCHANGED <<taskError, pending, filter, nextTaskId, reorderObs,
                 timerVars, progressVars, settingsVars, sessionVars, storeTasks, now, workDone, interfered>>

\* handleAddTask: addTask up to its await addDoc
AddTask(title) ==
  /\ lastOp' = [op |-> "add"]
  /\ IF currentUser = NoUser
       THEN UNCHANGED pending
       ELSE pending' = Append(pending,
              [kind |-> "add", tasks |-> tasks,
               newTask |-> Task(NoTask, title, FALSE, HighestOrder(tasks) + 1)])
  /\ UNCHANGED <<tasks, taskError, filter, nextTaskId, reorderObs,
                 timerVars, progressVars, settingsVars, sessionVars, storeTasks, now, workDone, interfered>>

\* addDoc(collection(db, 'tasks'), newTask) settled
AddTaskSettled(n, ok) ==
  LET op == pending[n]
      taskWithId == [op.newTask EXCEPT !.id = nextTaskId]
  IN /\ op.kind = "add"
     /\ pending' = RemoveAt(pending, n)
     /\ IF ok
          THEN /\ storeTasks' = [storeTasks EXCEPT ![nextTaskId] = taskWithId]
               /\ nextTaskId' = nextTaskId + 1
               /\ tasks' = Append(op.tasks, taskWithId)
               /\ UNCHANGED taskError
          ELSE /\ taskError' = TRUE
               /\ UNCHANGED <<storeTasks, nextTaskId, tasks>>
     /\ lastOp' = [op |-> "addSettled", ok |-> ok, task |-> taskWithId]
     /\ UNCHANGED <<filter, reorderObs,
                    timerVars, progressVars, settingsVars, sessionVars, now, workDone, interfered>>

\* mutant of UpdateTask: the list is changed when the call is issued
UpdateTaskOptimistic(id, data) ==
  /\ id \in Ids(FilteredTasks(tasks, filter))
  /\ lastOp' = [op |-> "update"]
  /\ IF currentUser = NoUser
       THEN UNCHANGED <<pending, tasks>>
       ELSE /\ pending' = Append(pending,
                 [kind |-> "update", tasks |-> tasks, id |-> id, data |-> data])
            /\ tasks' = [k \in 1..Len(tasks) |->
                           IF tasks[k].id = id THEN Merge(tasks[k], data) ELSE tasks[k]]
  /\ UNCHANGED <<taskError, filter, nextTaskId, reorderObs,
                 timerVars, progressVars, settingsVars, sessionVars, storeTasks, now,
                 workDone, interfered>>

\* handleToggleComplete and handleUpdateTask: updateTask up to its await
UpdateTask(id, data) ==
  /\ id \in Ids(FilteredTasks(tasks, filter))
  /\ lastOp' = [op |-> "update"]
  /\ IF currentUser = NoUser
       THEN UNCHANGED pending
       ELSE pending' = Append(pending,
              [kind |-> "update", tasks |-> tasks, id |-> id, data |-> data])
  /\ UNCHANGED <<tasks, taskError, filter, nextTaskId, reorderObs,
                 timerVars, progressVars, settingsVars, sessionVars, storeTasks, now, workDone, interfered>>

\* updateDoc(taskRef, updatedTask) settled
UpdateSettled(n, ok) ==
  LET op == pending[n]
      done == ok /\ storeTasks[op.id].exists
  IN /\ op.kind = "update"
     /\ pending' = RemoveAt(pending, n)
     /\ IF done
          THEN /\ storeTasks' = [storeTasks EXCEPT ![op.id] = Merge(@, op.data)]
               /\ tasks' = [k \in 1..Len(op.tasks) |->
                              IF op.tasks[k].id = op.id
                                THEN Merge(op.tasks[k], op.data) ELSE op.tasks[k]]
               /\ UNCHANGED taskError
          ELSE /\ taskError' = TRUE
               /\ UNCHANGED <<storeTasks, tasks>>
     /\ lastOp' = [op |-> "updateSettled", ok |-> done, id |-> op.id, data |-> op.data]
     /\ UNCHANGED <<filter, nextTaskId, reorderObs,
                    timerVars, progressVars, settingsVars, sessionVars, now, workDone, interfered>>

\* handleDeleteTask after the confirmation: deleteTask up to its await
DeleteTask(id) ==
  /\ id \in Ids(FilteredTasks(tasks, filter))
  /\ lastOp' = [op |-> "delete"]
  /\ IF currentUser = NoUser
       THEN UNCHANGED pending
       ELSE pending' = Append(pending,
              [kind |-> "delete", tasks |-> tasks, id |-> id])
  /\ UNCHANGED <<tasks, taskError, filter, nextTaskId, reorderObs,
                 timerVars, progressVars, settingsVars, sessionVars, storeTasks, now, workDone, interfered>>

\* mutant of DeleteSettled: the sessions of the deleted task are deleted with it
DeleteSettledCascade(n, ok) ==
  LET op == pending[n]
  IN /\ op.kind = "delete"
     /\ pending' = RemoveAt(pending, n)
     /\ IF ok
          THEN /\ storeTasks' = [storeTasks EXCEPT ![op.id] = NoDoc]
               /\ storeSessions' = SelectSeq(storeSessions, LAMBDA x : x.taskId # op.id)
               /\ tasks' = SelectSeq(op.tasks, LAMBDA t : t.id # op.id)
               /\ UNCHANGED taskError
          ELSE /\ taskError' = TRUE
               /\ UNCHANGED <<storeTasks, storeSessions, tasks>>
     /\ lastOp' = [op |-> "deleteSettled", ok |-> ok]
     /\ UNCHANGED <<filter, nextTaskId, reorderObs, sessions, sessionError, currentUser,
                    timerVars, progressVars, settingsVars, now, workDone, interfered>>

\* deleteDoc(doc(db, 'tasks', id)) settled
DeleteSettled(n, ok) ==
  LET op == pending[n]
  IN /\ op.kind = "delete"
     /\ pending' = RemoveAt(pending, n)
     /\ IF ok
          THEN /\ storeTasks' = [storeTasks EXCEPT ![op.id] = NoDoc]
               /\ tasks' = SelectSeq(op.tasks, LAMBDA t : t.id # op.id)
               /\ UNCHANGED taskError
          ELSE /\ taskError' = TRUE
               /\ UNCHANGED <<storeTasks, tasks>>
     /\ lastOp' = [op |-> "deleteSettled", ok |-> ok]
     /\ UNCHANGED <<filter, nextTaskId, reorderObs,
                    timerVars, progressVars, settingsVars, sessionVars, now, workDone, interfered>>

\* ------------------------------------------------------- specifications

TimerTask == [exists |-> TRUE, id |-> 1, title |-> "a", completed |-> FALSE,
              order |-> 0, pomodorosCompleted |-> 0]

\* a settings record saved through TimerSettings: the durations in minutes at
\* small values its validation accepts, the interval at its default
SavedSettings == [workDuration |-> 1, shortBreakDuration |-> 1,
                    longBreakDuration |-> 2, longBreakInterval |-> 4]


\* the timer page after mount: the state of the useState initialisers, the
\* user's tasks fetched, the settings of the user's settings record; the
\* pages are rendered inside PrivateRoute, so a user is signed in
InitTimer ==
  /\ \E k \in 1..MaxInterval :
       settings = [SavedSettings EXCEPT !.longBreakInterval = k]
  /\ timeLeft = Duration("work", settings)
  /\ isActive = FALSE
  /\ mode = "work"
  /\ selectedTaskId = NoTask
  /\ completedPomodoros = 0
  /\ startTimeRef = NoTime
  /\ timerIdRef = NoTimer
  /\ handlers = <<>>
  /\ storeTasks = [t \in TaskIds |-> IF t = 1 THEN TimerTask ELSE NoDoc]
  /\ timerTasks = <<TimerTask>>
  /\ sessions = <<>>
  /\ sessionError = FALSE
  /\ currentUser = User
  /\ storeSessions = <<>>
  /\ tasks = <<>>
  /\ taskError = FALSE
  /\ pending = <<>>
  /\ filter = "all"
  /\ nextTaskId = 2
  /\ reorderObs = NoObs
  /\ now = 0
  /\ lastOp = [op |-> "init"]
  /\ workDone = 0
  /\ interfered = FALSE
  /\ settingsDoc = [exists |-> TRUE, data |-> settings]
  /\ settingsAdded = <<>>
  /\ settingsFetch = IdleFetch
  /\ dialog = NoDialog
  /\ progress = NoProgress
  /\ calendar = [now |-> 0, zone |-> 0]

\* No code tells one value of timeLeft from another between 1 and the
\* configured durations, so events other than ticks are tried only within
\* EdgeWindow seconds of zero or of a configured duration.
AtEdge ==
  \E d \in {0} \cup {Duration(m, settings) : m \in Modes} :
    /\ timeLeft - d <= EdgeWindow
    /\ d - timeLeft <= EdgeWindow

TimerEvent ==
  \/ ToggleTimer
  \/ ResetTimer
  \/ \E m \in Modes, c \in BOOLEAN : SwitchMode(m, c)
  \/ \E t \in {NoTask} \cup TaskIds : SelectTask(t)
  \/ \E i \in 1..Len(handlers) : AfterAudio(i)
  \/ \E i \in 1..Len(handlers), ok \in BOOLEAN : AddDocSettled(i, ok)
  \/ \E i \in 1..Len(handlers), ok \in BOOLEAN : GetDocSettled(i, ok)
  \/ \E i \in 1..Len(handlers), ok \in BOOLEAN : UpdateDocSettled(i, ok)

\* one completion at a time (SpecSession has the overlapping completions)
TimerTick ==
  (timeLeft > 1 \/ (handlers = <<>> /\ workDone < MaxPomodoros)) /\ Tick

NextTimer == (AtEdge /\ TimerEvent) \/ TimerTick

SpecTimer == InitTimer /\ [][NextTimer]_vars

\* ------------------------------------------------------------- claims

ToggleOps == {"alert", "start", "pause"}

\* C1: a press of the start button in work mode with no task selected, from
\* any reachable state, raises the alert and changes none of isActive,
\* timeLeft, mode and startTimeRef; no other step starts the timer there.
C1_StartWithoutTaskRejected ==
  [][(~isActive /\ mode = "work" /\ selectedTaskId = NoTask)
       => /\ ~isActive'
          /\ lastOp'.op \in ToggleOps
               => /\ lastOp'.op = "alert"
                  /\ timeLeft' = timeLeft
                  /\ mode' = mode
                  /\ startTimeRef' = startTimeRef]_vars

\* the alert raised after a pomodoro was completed and the task deselected
C1_Witness ==
  /\ lastOp.op = "alert"
  /\ completedPomodoros >= 1
  /\ ~isActive /\ mode = "work" /\ selectedTaskId = NoTask

\* C2: when no start or reset was pressed during a pending completion, the
\* mode entered after the i-th work completion is longBreak if i is a
\* multiple of longBreakInterval and shortBreak otherwise.
C2_LongBreakEveryKth ==
  (lastOp.op = "afterWork" /\ ~interfered)
    => mode = IF workDone % settings.longBreakInterval = 0
                THEN "longBreak" ELSE "shortBreak"

\* a long break entered after the K-th completion with K > 1, and a short
\* break entered after a completion that follows a long break
C2_Witness ==
  /\ lastOp.op = "afterWork" /\ ~interfered
  /\ settings.longBreakInterval = 2
  /\ workDone = 3
  /\ mode = "shortBreak"
  /\ completedPomodoros = 3

\* the task lists fetchTasks can return for a user with n tasks: documents
\* 1..n by ascending order, the orders distinct as adds, deletes and
\* reorders leave them, any of the tasks completed
TaskLists(n) ==
  {[k \in 1..n |->
      Task(k, "a", k \in done,
           CHOOSE x \in orders : Cardinality({y \in orders : y < x}) = k - 1)] :
     done \in SUBSET (1..n),
     orders \in {S \in SUBSET (0..MaxOrder) : Cardinality(S) = n}}

\* TaskManager mounted for a user with MaxTasks tasks
InitDrag ==
  /\ settings = SavedSettings
  /\ timeLeft = Duration("work", settings)
  /\ isActive = FALSE
  /\ mode = "work"
  /\ selectedTaskId = NoTask
  /\ completedPomodoros = 0
  /\ startTimeRef = NoTime
  /\ timerIdRef = NoTimer
  /\ handlers = <<>>
  /\ tasks \in TaskLists(MaxTasks)
  /\ storeTasks = [t \in TaskIds |-> tasks[t]]
  /\ timerTasks = tasks
  /\ sessions = <<>>
  /\ sessionError = FALSE
  /\ currentUser = User
  /\ storeSessions = <<>>
  /\ taskError = FALSE
  /\ pending = <<>>
  /\ filter = "all"
  /\ nextTaskId = MaxTasks + 1
  /\ reorderObs = NoObs
  /\ now = 0
  /\ lastOp = [op |-> "init"]
  /\ workDone = 0
  /\ interfered = FALSE
  /\ settingsDoc = [exists |-> TRUE, data |-> settings]
  /\ settingsAdded = <<>>
  /\ settingsFetch = IdleFetch
  /\ dialog = NoDialog
  /\ progress = NoProgress
  /\ calendar = [now |-> 0, zone |-> 0]

\* drags are tried one at a time: the next one after the previous reorder
\* has settled (SpecTasks has the overlapping operations)
NextDrag ==
  \/ \E f \in Filters : SetFilter(f)
  \/ (pending = <<>> /\ \E i, j \in 1..MaxTasks : HandleDragEnd(i, j))
  \/ \E n \in 1..Len(pending), oks \in SUBSET (1..MaxTasks) : ReorderSettled(n, oks)

SpecDrag == InitDrag /\ [][NextDrag]_vars

\* TaskManager mounted for a new user
InitTasks ==
  /\ settings = SavedSettings
  /\ timeLeft = Duration("work", settings)
  /\ isActive = FALSE
  /\ mode = "work"
  /\ selectedTaskId = NoTask
  /\ completedPomodoros = 0
  /\ startTimeRef = NoTime
  /\ timerIdRef = NoTimer
  /\ handlers = <<>>
  /\ tasks = <<>>
  /\ storeTasks = [t \in TaskIds |-> NoDoc]
  /\ timerTasks = <<>>
  /\ sessions = <<>>
  /\ sessionError = FALSE
  /\ currentUser = User
  /\ storeSessions = <<>>
  /\ taskError = FALSE
  /\ pending = <<>>
  /\ filter = "all"
  /\ nextTaskId = 1
  /\ reorderObs = NoObs
  /\ now = 0
  /\ lastOp = [op |-> "init"]
  /\ workDone = 0
  /\ interfered = FALSE
  /\ settingsDoc = [exists |-> TRUE, data |-> settings]
  /\ settingsAdded = <<>>
  /\ settingsFetch = IdleFetch
  /\ dialog = NoDialog
  /\ progress = NoProgress
  /\ calendar = [now |-> 0, zone |-> 0]

AddsIssued == nextTaskId - 1 + Cardinality({n \in 1..Len(pending) : pending[n].kind = "add"})

TaskCall ==
  \/ (AddsIssued < MaxAdds /\ \E title \in Titles : AddTask(title))
  \/ \E k \in 1..Len(tasks) : UpdateTask(tasks[k].id, [completed |-> ~tasks[k].completed])
  \/ \E id \in TaskIds : DeleteTask(id)
  \/ \E i, j \in 1..MaxTasks : HandleDragEnd(i, j)

NextTasks ==
  \/ (Len(pending) < MaxPendingOps /\ TaskCall)
  \/ (pending = <<>> /\ FetchTasks)
  \/ \E n \in 1..Len(pending), ok \in BOOLEAN : AddTaskSettled(n, ok)
  \/ \E n \in 1..Len(pending), ok \in BOOLEAN : UpdateSettled(n, ok)
  \/ \E n \in 1..Len(pending), ok \in BOOLEAN : DeleteSettled(n, ok)
  \/ \E n \in 1..Len(pending), oks \in SUBSET (1..MaxTasks) : ReorderSettled(n, oks)

SpecTasks == InitTasks /\ [][NextTasks]_vars

Pos(ts, id) == CHOOSE k \in 1..Len(ts) : ts[k].id = id
IdSeq(ts) == [k \in 1..Len(ts) |-> ts[k].id]
InFilter(t, f) == f = "all" \/ (f = "active" /\ ~t.completed)
                            \/ (f = "completed" /\ t.completed)

\* the arrangement the specification asks of a drag in a filtered view: the
\* places of the filtered tasks in the full list, filled in order by the
\* filtered tasks as the drag left them
SpliceBack(ts, f, i, j) ==
  LET moved == Move(FilteredTasks(ts, f), i, j)
  IN [k \in 1..Len(ts) |->
        IF InFilter(ts[k], f)
          THEN moved[Cardinality({m \in 1..k : InFilter(ts[m], f)})]
          ELSE ts[k]]

\* C3: a drag from i to j # i in the active or completed view passes
\* reorderTasks the full list with the filtered tasks' places filled by
\* their new arrangement, order = index assigned over it.
C3_FilteredDragSplicedBack ==
  (lastOp.op = "drag" /\ lastOp.from # lastOp.to /\ filter # "all")
    => pending[Len(pending)].passed
         = WithIndexOrder(SpliceBack(tasks, filter, lastOp.from, lastOp.to))

\* C4: after a drag from i to j # i in the view of all tasks and a
\* successful write, the dragged task is at place j and the other tasks
\* keep their relative order, in the list and in the store.
C4_UnfilteredDragMovesTask ==
  (lastOp.op = "reorderSettled" /\ lastOp.ok /\ lastOp.call.filter = "all")
    => LET before == lastOp.call.before
           dragged == before[lastOp.call.from]
           others(ts) == SelectSeq(ts, LAMBDA t : t.id # dragged.id)
       IN /\ tasks[lastOp.call.to].id = dragged.id
          /\ IdSeq(others(tasks)) = IdSeq(others(before))
          /\ \A k \in 1..Len(tasks) : storeTasks[tasks[k].id].order = k - 1

\* C5: a drag in the active or completed view keeps the relative order of
\* every two tasks outside the filter, in the list passed to reorderTasks
\* and in the list after the write.
C5_OutsideFilterOrderKept ==
  LET kept(before, f, after) ==
        \A a, b \in 1..Len(before) :
          (a < b /\ ~InFilter(before[a], f) /\ ~InFilter(before[b], f))
            => Pos(after, before[a].id) < Pos(after, before[b].id)
  IN /\ (lastOp.op = "drag" /\ lastOp.from # lastOp.to /\ filter # "all")
          => kept(tasks, filter, pending[Len(pending)].passed)
     /\ (lastOp.op = "reorderSettled" /\ lastOp.ok /\ lastOp.call.filter # "all")
          => kept(lastOp.call.before, lastOp.call.filter, tasks)

\* a drag among the active tasks written, with an active task between two
\* completed ones
C5_Witness ==
  /\ lastOp.op = "reorderSettled" /\ lastOp.ok
  /\ lastOp.call.filter = "active"
  /\ \E a, b, c \in 1..Len(lastOp.call.before) :
       /\ a < b /\ b < c
       /\ lastOp.call.before[a].completed
       /\ ~lastOp.call.before[b].completed
       /\ lastOp.call.before[c].completed

\* C6: reorderTasks called again with the sequence its last successful call
\* left leaves the order of every task as it was, in the list and in the store.
C6_ReorderIdempotent ==
  (/\ lastOp.op = "reorderSettled" /\ lastOp.ok
   /\ lastOp.prior.seen
   /\ IdSeq(lastOp.call.passed) = IdSeq(lastOp.prior.result))
    => /\ tasks = lastOp.prior.result
       /\ storeTasks = lastOp.storeBefore

\* the second call settled, after a first one that closed a gap in the orders
C6_Witness ==
  /\ lastOp.op = "reorderSettled" /\ lastOp.ok
  /\ lastOp.prior.seen
  /\ IdSeq(lastOp.call.passed) = IdSeq(lastOp.prior.result)
  /\ tasks = lastOp.prior.result
  /\ ~taskError

\* C7: a task whose add has been stored has an order greater than the order
\* of every task the store held before it.
C7_NewTaskOrderedLast ==
  (lastOp.op = "addSettled" /\ lastOp.ok)
    => \A id \in TaskIds :
         (id # lastOp.task.id /\ storeTasks[id].exists)
           => storeTasks[id].order < lastOp.task.order

\* C8: no two stored tasks of the user have the same order.
C8_OrderUnique ==
  \A a, b \in TaskIds :
    (a # b /\ storeTasks[a].exists /\ storeTasks[b].exists)
      => storeTasks[a].order # storeTasks[b].order

\* the timer page after mount; the wall clock runs (Elapse)
InitSession ==
  /\ settings = SavedSettings
  /\ timeLeft = Duration("work", settings)
  /\ isActive = FALSE
  /\ mode = "work"
  /\ selectedTaskId = NoTask
  /\ completedPomodoros = 0
  /\ startTimeRef = NoTime
  /\ timerIdRef = NoTimer
  /\ handlers = <<>>
  /\ storeTasks = [t \in TaskIds |-> IF t = 1 THEN TimerTask ELSE NoDoc]
  /\ timerTasks = <<TimerTask>>
  /\ sessions = <<>>
  /\ sessionError = FALSE
  /\ currentUser = User
  /\ storeSessions = <<>>
  /\ tasks = <<>>
  /\ taskError = FALSE
  /\ pending = <<>>
  /\ filter = "all"
  /\ nextTaskId = 2
  /\ reorderObs = NoObs
  /\ now = 0
  /\ lastOp = [op |-> "init"]
  /\ workDone = 0
  /\ interfered = FALSE
  /\ settingsDoc = [exists |-> TRUE, data |-> settings]
  /\ settingsAdded = <<>>
  /\ settingsFetch = IdleFetch
  /\ dialog = NoDialog
  /\ progress = NoProgress
  /\ calendar = [now |-> 0, zone |-> 0]

SessionEvent ==
  \/ ToggleTimer
  \/ ResetTimer
  \/ \E t \in {NoTask} \cup TaskIds : SelectTask(t)
  \/ \E d \in ClockSteps : Elapse(d)
  \/ \E i \in 1..Len(handlers) : AfterAudio(i)
  \/ \E i \in 1..Len(handlers), ok \in BOOLEAN : AddDocSettled(i, ok)
  \/ \E i \in 1..Len(handlers), ok \in BOOLEAN : GetDocSettled(i, ok)
  \/ \E i \in 1..Len(handlers), ok \in BOOLEAN : UpdateDocSettled(i, ok)

\* up to MaxOverlap completions in flight: the start button works while an
\* earlier completion still awaits the audio element or the store, and the
\* first tick at timeLeft = 0 calls handleTimerComplete again
SessionTick ==
  /\ \/ timeLeft > 1
     \/ (Len(handlers) < MaxOverlap /\ workDone + Len(handlers) < MaxSessions)
  /\ Tick

NextSession == (AtEdge /\ SessionEvent) \/ SessionTick

SpecSession == InitSession /\ [][NextSession]_vars

\* C9: every session recorded has a duration of whole seconds, the time from
\* startTime to endTime rounded down, and never negative; the session handed
\* to addSession has the start marker as startTime and the instant after the
\* notification sound as endTime.
C9_DurationIsFloorOfSeconds ==
  LET floored(s) ==
        /\ s.duration >= 0
        /\ s.duration * MsPerSecond <= s.endTime - s.startTime
        /\ s.endTime - s.startTime < (s.duration + 1) * MsPerSecond
  IN /\ \A k \in 1..Len(storeSessions) : floored(storeSessions[k])
     /\ \A k \in 1..Len(sessions) : floored(sessions[k])
     /\ \A i \in 1..Len(handlers) :
          handlers[i].session.exists => floored(handlers[i].session)
     /\ lastOp.op = "addSession"
          => \E i \in 1..Len(handlers) :
               /\ handlers[i].pc = "addDoc"
               /\ handlers[i].session.startTime = startTimeRef
               /\ handlers[i].session.endTime = now

\* a session of 90.7 s stored with duration 90
C9_Witness ==
  \E k \in 1..Len(storeSessions) :
    /\ storeSessions[k].endTime - storeSessions[k].startTime = 90700
    /\ storeSessions[k].duration = 90

\* C10: once every recording has finished without an error, the stored
\* pomodorosCompleted of the task equals the number of sessions stored for it.
C10_CounterCountsSessions ==
  (handlers = <<>> /\ ~sessionError)
    => \A id \in TaskIds :
         storeTasks[id].exists
           => storeTasks[id].pomodorosCompleted
                = Cardinality({k \in 1..Len(storeSessions) : storeSessions[k].taskId = id})

\* ------------------------------------------------------------------
\* useUserSettings and the TimerSettings dialog

\* the number inputs of the dialog: onChange stores parseInt(value) || 1,
\* so 0 is stored as 1 (and so is an empty field, whose NaN is falsy too)
ParseField(raw) == IF raw = 0 THEN 1 ELSE raw

\* what is typed into each field
FieldInputs ==
  [workDuration |-> {-1, 120, 121},
   shortBreakDuration |-> {60, 61},
   longBreakDuration |-> {-1, 121},
   longBreakInterval |-> {-1, 0}]
Fields == DOMAIN FieldInputs

\* handleSave's two tests, with the messages they set
FormErrorNoUpperLimit(f) ==
  IF f.workDuration < 1 \/ f.shortBreakDuration < 1
       \/ f.longBreakDuration < 1 \/ f.longBreakInterval < 1
    THEN "atLeast1"
    ELSE ""

FormError(f) ==
  IF f.workDuration < 1 \/ f.shortBreakDuration < 1
       \/ f.longBreakDuration < 1 \/ f.longBreakInterval < 1
    THEN "atLeast1"
    ELSE IF f.workDuration > 120 \/ f.shortBreakDuration > 60 \/ f.longBreakDuration > 120
           THEN "tooLong"
           ELSE ""

\* updateDoc rejects when the document does not exist
UpdateDocApplies(ok) == ok /\ settingsDoc.exists

\* a closed dialog is unmounted: its state is gone, the calls it started go on
Unmounted(d) ==
  IF d.open THEN d ELSE [NoDialog EXCEPT !.fetch = d.fetch, !.save = d.save]

\* the timer's instance: fetchSettings, started by the mount effect, after getDoc
FetchGetDocSettled(ok) ==
  /\ settingsFetch.pc = "getDoc"
  /\ IF ok /\ settingsDoc.exists
       THEN \* setSettings(docSnap.data()): a new object, so the [mode, settings]
            \* effect of the timer runs and sets the countdown
            /\ settings' = settingsDoc.data
            /\ timeLeft' = Duration(mode, settings')
            /\ settingsFetch' = IdleFetch
       ELSE /\ settingsFetch' =
                 IF ok THEN [pc |-> "updateDoc", arg |-> settings]
                       ELSE IdleFetch
            /\ UNCHANGED <<settings, timeLeft>>
  /\ lastOp' = [op |-> "fetchGetDoc", ok |-> ok]
  /\ UNCHANGED <<isActive, mode, selectedTaskId, completedPomodoros, startTimeRef,
                 timerIdRef, handlers, timerTasks, sessionVars, storeTasks, taskVars, progressVars,
                 settingsDoc, settingsAdded, dialog, now, workDone, interfered>>

\* updateSettings(settings) called by fetchSettings, after updateDoc.
\* setSettings(newSettings) is given the object already in state: no render.
FetchUpdateDocSettled(ok) ==
  /\ settingsFetch.pc = "updateDoc"
  /\ IF UpdateDocApplies(ok)
       THEN /\ settingsDoc' = [exists |-> TRUE, data |-> settingsFetch.arg]
            /\ settingsFetch' = IdleFetch
       ELSE /\ settingsFetch' = [settingsFetch EXCEPT !.pc = "addDoc"]
            /\ UNCHANGED settingsDoc
  /\ lastOp' = [op |-> "fetchUpdateDoc", ok |-> ok]
  /\ UNCHANGED <<timerVars, sessionVars, storeTasks, taskVars, progressVars,
                 settingsAdded, dialog, now, workDone, interfered>>

\* the fallback of updateSettings, after addDoc(collection(db, 'userSettings'), ...)
FetchAddDocSettled(ok) ==
  /\ settingsFetch.pc = "addDoc"
  /\ IF ok
       THEN /\ settingsAdded' = Append(settingsAdded,
                                       [data |-> settingsFetch.arg, userId |-> currentUser])
            /\ settingsFetch' = IdleFetch
       ELSE /\ settingsFetch' = IdleFetch
            /\ UNCHANGED settingsAdded
  /\ lastOp' = [op |-> "fetchAddDoc", ok |-> ok]
  /\ UNCHANGED <<timerVars, sessionVars, storeTasks, taskVars, progressVars,
                 settingsDoc, dialog, now, workDone, interfered>>

\* the settings button: mounts TimerSettings, whose own useUserSettings starts
\* from the defaults and fetches; the form fields start from that state
OpenSettings ==
  /\ ~dialog.open
  /\ dialog.fetch.pc = "idle" /\ dialog.save.pc = "idle"
  /\ dialog' = [NoDialog EXCEPT
                  !.open = TRUE,
                  !.fetch = IF currentUser = NoUser THEN IdleFetch
                            ELSE [pc |-> "getDoc", arg |-> CodeDefaults]]
  /\ lastOp' = [op |-> "openSettings"]
  /\ UNCHANGED <<timerVars, sessionVars, storeTasks, taskVars, progressVars,
                 settingsDoc, settingsAdded, settingsFetch, now, workDone, interfered>>

\* onClose: the X button, Cancel, or a click on the backdrop
CloseSettings ==
  /\ dialog.open
  /\ dialog' = Unmounted([dialog EXCEPT !.open = FALSE])
  /\ lastOp' = [op |-> "closeSettings"]
  /\ UNCHANGED <<timerVars, sessionVars, storeTasks, taskVars, progressVars,
                 settingsDoc, settingsAdded, settingsFetch, now, workDone, interfered>>

\* the onChange of one of the four number inputs
SetField(field, raw) ==
  /\ dialog.open
  /\ dialog' = [dialog EXCEPT !.form[field] = ParseField(raw)]
  /\ lastOp' = [op |-> "setField"]
  /\ UNCHANGED <<timerVars, sessionVars, storeTasks, taskVars, progressVars,
                 settingsDoc, settingsAdded, settingsFetch, now, workDone, interfered>>

\* the dialog's instance, after the getDoc of its fetchSettings; the form
\* fields keep what they were initialised with
DialogGetDocSettled(ok) ==
  /\ dialog.fetch.pc = "getDoc"
  /\ dialog' = Unmounted(
       IF ok /\ settingsDoc.exists
         THEN [dialog EXCEPT !.settings = settingsDoc.data, !.fetch = IdleFetch]
         ELSE IF ok
                THEN [dialog EXCEPT !.fetch = [pc |-> "updateDoc", arg |-> dialog.settings]]
                ELSE [dialog EXCEPT !.fetch = IdleFetch])
  /\ lastOp' = [op |-> "dialogGetDoc", ok |-> ok]
  /\ UNCHANGED <<timerVars, sessionVars, storeTasks, taskVars, progressVars,
                 settingsDoc, settingsAdded, settingsFetch, now, workDone, interfered>>

DialogUpdateDocSettled(ok) ==
  /\ dialog.fetch.pc = "updateDoc"
  /\ IF UpdateDocApplies(ok)
       THEN /\ settingsDoc' = [exists |-> TRUE, data |-> dialog.fetch.arg]
            /\ dialog' = Unmounted([dialog EXCEPT !.settings = dialog.fetch.arg,
                                                  !.fetch = IdleFetch])
       ELSE /\ dialog' = [dialog EXCEPT !.fetch.pc = "addDoc"]
            /\ UNCHANGED settingsDoc
  /\ lastOp' = [op |-> "dialogUpdateDoc", ok |-> ok]
  /\ UNCHANGED <<timerVars, sessionVars, storeTasks, taskVars, progressVars,
                 settingsAdded, settingsFetch, now, workDone, interfered>>

DialogAddDocSettled(ok) ==
  /\ dialog.fetch.pc = "addDoc"
  /\ IF ok
       THEN /\ settingsAdded' = Append(settingsAdded,
                                       [data |-> dialog.fetch.arg, userId |-> currentUser])
            /\ dialog' = Unmounted([dialog EXCEPT !.settings = dialog.fetch.arg,
                                                  !.fetch = IdleFetch])
       ELSE /\ dialog' = Unmounted([dialog EXCEPT !.fetch = IdleFetch])
            /\ UNCHANGED settingsAdded
  /\ lastOp' = [op |-> "dialogAddDoc", ok |-> ok]
  /\ UNCHANGED <<timerVars, sessionVars, storeTasks, taskVars, progressVars,
                 settingsDoc, settingsFetch, now, workDone, interfered>>

HandleSaveNoUpperLimit ==
  /\ dialog.open
  /\ ~dialog.isSaving
  /\ IF FormErrorNoUpperLimit(dialog.form) # ""
       THEN dialog' = [dialog EXCEPT !.error = FormErrorNoUpperLimit(dialog.form)]
       ELSE IF currentUser = NoUser
              THEN dialog' = Unmounted([dialog EXCEPT !.open = FALSE])
              ELSE dialog' = [dialog EXCEPT !.isSaving = TRUE,
                                            !.save = [pc |-> "updateDoc", arg |-> dialog.form]]
  /\ lastOp' = [op |-> "save", form |-> dialog.form]
  /\ UNCHANGED <<timerVars, sessionVars, storeTasks, taskVars, progressVars,
                 settingsDoc, settingsAdded, settingsFetch, now, workDone, interfered>>

\* the Save button (disabled while saving), up to the await of updateSettings;
\* without a user updateSettings returns false at once and onClose() follows
HandleSave ==
  /\ dialog.open
  /\ ~dialog.isSaving
  /\ IF FormError(dialog.form) # ""
       THEN dialog' = [dialog EXCEPT !.error = FormError(dialog.form)]
       ELSE IF currentUser = NoUser
              THEN dialog' = Unmounted([dialog EXCEPT !.open = FALSE])
              ELSE dialog' = [dialog EXCEPT !.isSaving = TRUE,
                                            !.save = [pc |-> "updateDoc", arg |-> dialog.form]]
  /\ lastOp' = [op |-> "save", form |-> dialog.form]
  /\ UNCHANGED <<timerVars, sessionVars, storeTasks, taskVars, progressVars,
                 settingsDoc, settingsAdded, settingsFetch, now, workDone, interfered>>

\* updateSettings called by handleSave, after updateDoc; on success
\* setSettings of the dialog's instance, return true, onClose(), setIsSaving(false)
SaveUpdateDocSettled(ok) ==
  /\ dialog.save.pc = "updateDoc"
  /\ IF UpdateDocApplies(ok)
       THEN /\ settingsDoc' = [exists |-> TRUE, data |-> dialog.save.arg]
            /\ dialog' = Unmounted([dialog EXCEPT !.settings = dialog.save.arg,
                                                  !.save = IdleFetch,
                                                  !.isSaving = FALSE,
                                                  !.open = FALSE])
            /\ lastOp' = [op |-> "saved", ok |-> TRUE, saved |-> dialog.save.arg]
       ELSE /\ dialog' = [dialog EXCEPT !.save.pc = "addDoc"]
            /\ lastOp' = [op |-> "saveUpdateDoc", ok |-> FALSE]
            /\ UNCHANGED settingsDoc
  /\ UNCHANGED <<timerVars, sessionVars, storeTasks, taskVars, progressVars,
                 settingsAdded, settingsFetch, now, workDone, interfered>>

\* the fallback addDoc of that updateSettings; handleSave calls onClose()
\* whatever updateSettings returned
SaveAddDocSettled(ok) ==
  /\ dialog.save.pc = "addDoc"
  /\ IF ok
       THEN /\ settingsAdded' = Append(settingsAdded,
                                       [data |-> dialog.save.arg, userId |-> currentUser])
            /\ dialog' = Unmounted([dialog EXCEPT !.settings = dialog.save.arg,
                                                  !.save = IdleFetch,
                                                  !.isSaving = FALSE,
                                                  !.open = FALSE])
       ELSE /\ dialog' = Unmounted([dialog EXCEPT !.save = IdleFetch,
                                                  !.isSaving = FALSE,
                                                  !.open = FALSE])
            /\ UNCHANGED settingsAdded
  /\ lastOp' = [op |-> "saved", ok |-> ok, saved |-> dialog.save.arg]
  /\ UNCHANGED <<timerVars, sessionVars, storeTasks, taskVars, progressVars,
                 settingsDoc, settingsFetch, now, workDone, interfered>>

\* ------------------------------------------------------------------
\* SpecSettings: the timer page from its mount, with the settings dialog.
\* The document userSettings/<uid> is there or not when the page mounts.

InitSettings ==
  /\ settings = CodeDefaults
  /\ timeLeft = Duration("work", settings)
  /\ isActive = FALSE
  /\ mode = "work"
  /\ selectedTaskId = NoTask
  /\ completedPomodoros = 0
  /\ startTimeRef = NoTime
  /\ timerIdRef = NoTimer
  /\ handlers = <<>>
  /\ storeTasks = [t \in TaskIds |-> IF t = 1 THEN TimerTask ELSE NoDoc]
  /\ timerTasks = <<TimerTask>>
  /\ sessions = <<>>
  /\ sessionError = FALSE
  /\ currentUser = User
  /\ storeSessions = <<>>
  /\ tasks = <<>>
  /\ taskError = FALSE
  /\ pending = <<>>
  /\ filter = "all"
  /\ nextTaskId = 2
  /\ reorderObs = NoObs
  /\ now = 0
  /\ lastOp = [op |-> "init"]
  /\ workDone = 0
  /\ interfered = FALSE
  /\ settingsDoc \in {NoDoc, [exists |-> TRUE, data |-> SavedSettings]}
  /\ settingsAdded = <<>>
  /\ settingsFetch = [pc |-> "getDoc", arg |-> CodeDefaults]
  /\ dialog = NoDialog
  /\ progress = NoProgress
  /\ calendar = [now |-> 0, zone |-> 0]

\* The dialog is a fixed full-page backdrop whose click is onClose: while it
\* is open no button of the timer can be clicked.
TimerButton ==
  \/ ToggleTimer
  \/ ResetTimer
  \/ \E m \in Modes, c \in BOOLEAN : SwitchMode(m, c)
  \/ \E t \in {NoTask} \cup TaskIds : SelectTask(t)

SettingsCall ==
  \/ \E ok \in BOOLEAN : FetchGetDocSettled(ok)
  \/ \E ok \in BOOLEAN : FetchUpdateDocSettled(ok)
  \/ \E ok \in BOOLEAN : FetchAddDocSettled(ok)
  \/ \E ok \in BOOLEAN : DialogGetDocSettled(ok)
  \/ \E ok \in BOOLEAN : DialogUpdateDocSettled(ok)
  \/ \E ok \in BOOLEAN : DialogAddDocSettled(ok)
  \/ \E ok \in BOOLEAN : SaveUpdateDocSettled(ok)
  \/ \E ok \in BOOLEAN : SaveAddDocSettled(ok)

FieldsEdited(form) == Cardinality({f \in Fields : form[f] # CodeDefaults[f]})

DialogEvent ==
  \/ CloseSettings
  \/ HandleSave
  \/ \E f \in Fields : \E raw \in FieldInputs[f] :
       /\ FieldsEdited([dialog.form EXCEPT ![f] = ParseField(raw)]) <= MaxEdited
       /\ SetField(f, raw)

NextSettings ==
  \/ (~dialog.open /\ TimerButton)
  \/ (Duration(mode, settings) - timeLeft < MaxTicks /\ Tick)
  \/ SettingsCall
  \/ DialogEvent
  \/ (Len(settingsAdded) < MaxSettingsAdded /\ OpenSettings)

SpecSettings == InitSettings /\ [][NextSettings]_vars


AfterOps == {"afterWork", "afterBreak"}

\* C15: after a mode switch, by switchMode or by a completion, the
\* countdown is the configured duration of the mode entered and the start
\* marker is cleared.
C15_ModeSwitchResets ==
  (lastOp.op = "switch" \/ lastOp.op \in AfterOps)
    => /\ timeLeft = Duration(mode, settings)
       /\ startTimeRef = NoTime

\* C16: a reset stops the timer and its interval (no tick can follow), sets the countdown to the
\* duration of the current mode, clears the start marker, and changes
\* neither the sessions nor mode, selected task and completed count.
C16_ResetRestores ==
  [][lastOp'.op = "reset"
       => /\ ~isActive' /\ ~timerIdRef'.live
          /\ timeLeft' = Duration(mode, settings)
          /\ startTimeRef' = NoTime
          /\ storeSessions' = storeSessions /\ sessions' = sessions
          /\ mode' = mode /\ selectedTaskId' = selectedTaskId
          /\ completedPomodoros' = completedPomodoros]_vars

\* a reset of a paused work countdown that had run and had a start marker
C16_Witness ==
  /\ lastOp.op = "reset"
  /\ lastOp.marker # NoTime
  /\ lastOp.left < Duration(mode, settings)
  /\ lastOp.left > 0
  /\ mode = "work" /\ completedPomodoros >= 1

\* C17: every stored session has type work, a task and the signed-in user,
\* and a session is stored only for a countdown that reached zero in work
\* mode, with the task that was selected then.
C17_SessionsOnlyFromWork ==
  /\ [](\A k \in 1..Len(storeSessions) :
          /\ storeSessions[k].type = "work"
          /\ storeSessions[k].taskId # NoTask
          /\ storeSessions[k].userId = currentUser)
  /\ [][/\ storeSessions' # storeSessions
          => /\ lastOp'.op = "sessionStored"
             /\ \E i \in 1..Len(handlers) :
                  /\ handlers[i].pc = "addDoc"
                  /\ handlers[i].at.mode = "work"
                  /\ Len(storeSessions') = Len(storeSessions) + 1
                  /\ SubSeq(storeSessions', 1, Len(storeSessions)) = storeSessions
                  /\ storeSessions'[Len(storeSessions')].taskId = handlers[i].at.task]_vars

SwitchOps == {"switch", "declined"}

\* C19: a switch requested while the timer runs and declined changes nothing
\* and leaves the interval running; one confirmed, or requested while the
\* timer is paused whatever the answer would be, enters the requested mode.
C19_SwitchNeedsConfirmation ==
  [][lastOp'.op \in SwitchOps
       => IF isActive /\ ~lastOp'.confirm
            THEN /\ lastOp'.op = "declined"
                 /\ mode' = mode /\ isActive' /\ timeLeft' = timeLeft
                 /\ startTimeRef' = startTimeRef
                 /\ timerIdRef' = timerIdRef /\ timerIdRef'.live
            ELSE /\ lastOp'.op = "switch"
                 /\ mode' = lastOp'.to]_vars

\* a declined switch during a running countdown, and then a tick
C19_Witness ==
  /\ lastOp.op = "declined"
  /\ isActive /\ mode = "work" /\ lastOp.to = "longBreak"
  /\ timeLeft < Duration(mode, settings)
  /\ ENABLED Tick

\* ------------------------------------------------------------------
\* SpecDashboard: the dashboard page, which mounts PomodoroTimer and
\* TaskManager side by side, each with its own useTasks instance, and the
\* settings dialog of the timer.

InitDashboard ==
  /\ settings = SavedSettings
  /\ timeLeft = Duration("work", settings)
  /\ isActive = FALSE
  /\ mode = "work"
  /\ selectedTaskId = NoTask
  /\ completedPomodoros = 0
  /\ startTimeRef = NoTime
  /\ timerIdRef = NoTimer
  /\ handlers = <<>>
  /\ storeTasks = [t \in TaskIds |-> IF t = 1 THEN TimerTask ELSE NoDoc]
  /\ timerTasks = <<TimerTask>>
  /\ sessions = <<>>
  /\ sessionError = FALSE
  /\ currentUser = User
  /\ storeSessions = <<>>
  /\ tasks = <<TimerTask>>
  /\ taskError = FALSE
  /\ pending = <<>>
  /\ filter = "all"
  /\ nextTaskId = 2
  /\ reorderObs = NoObs
  /\ now = 0
  /\ lastOp = [op |-> "init"]
  /\ workDone = 0
  /\ interfered = FALSE
  /\ settingsDoc = [exists |-> TRUE, data |-> settings]
  /\ settingsAdded = <<>>
  /\ settingsFetch = IdleFetch
  /\ dialog = NoDialog
  /\ progress = NoProgress
  /\ calendar = [now |-> 0, zone |-> 0]

\* the buttons are left alone while a completion is in flight (SpecTimer and
\* SpecSession have the presses that fall into one)
DashboardTimerEvent ==
  \/ (handlers = <<>> /\ ~dialog.open /\ TimerButton)
  \/ \E i \in 1..Len(handlers) : AfterAudio(i)
  \/ \E i \in 1..Len(handlers), ok \in BOOLEAN : AddDocSettled(i, ok)
  \/ \E i \in 1..Len(handlers), ok \in BOOLEAN : GetDocSettled(i, ok)
  \/ \E i \in 1..Len(handlers), ok \in BOOLEAN : UpdateDocSettled(i, ok)

DashboardTaskEvent ==
  \/ /\ ~dialog.open
     /\ pending = <<>>
     /\ \/ (nextTaskId <= MaxDashboardTasks /\ \E title \in Titles : AddTask(title))
        \/ \E k \in 1..Len(tasks) :
             UpdateTask(tasks[k].id, [completed |-> ~tasks[k].completed])
        \/ \E id \in TaskIds : DeleteTask(id)
        \/ \E i, j \in 1..MaxDashboardTasks : HandleDragEnd(i, j)
  \/ \E n \in 1..Len(pending), ok \in BOOLEAN : AddTaskSettled(n, ok)
  \/ \E n \in 1..Len(pending), ok \in BOOLEAN : UpdateSettled(n, ok)
  \/ \E n \in 1..Len(pending), ok \in BOOLEAN : DeleteSettled(n, ok)
  \/ \E n \in 1..Len(pending), oks \in SUBSET (1..MaxDashboardTasks) : ReorderSettled(n, oks)

DashboardSettingsEvent ==
  \/ (Len(settingsAdded) < MaxSettingsAdded /\ OpenSettings)
  \/ CloseSettings
  \/ HandleSave
  \/ \E ok \in BOOLEAN : DialogGetDocSettled(ok)
  \/ \E ok \in BOOLEAN : DialogUpdateDocSettled(ok)
  \/ \E ok \in BOOLEAN : DialogAddDocSettled(ok)
  \/ \E ok \in BOOLEAN : SaveUpdateDocSettled(ok)
  \/ \E ok \in BOOLEAN : SaveAddDocSettled(ok)

DashboardTick ==
  /\ workDone < MaxDashboardSessions
  /\ timeLeft > 1 \/ handlers = <<>>
  /\ Tick

\* No handler of TaskManager or TimerSettings reads the timer's state, and the
\* timer reads theirs only through the store, in handleTimerComplete. Their
\* events therefore commute with the timer's up to the first work countdown
\* reaching zero, and are tried from there on.
Quiet == workDone > 0 \/ \E i \in 1..Len(handlers) : handlers[i].cl.mode = "work"

\* TaskManager and the settings dialog share no state: a run follows one of them
TasksUntouched ==
  /\ tasks = <<TimerTask>> /\ pending = <<>> /\ nextTaskId = 2
  /\ ~taskError /\ reorderObs = NoObs
SettingsUntouched ==
  /\ dialog = NoDialog /\ settingsAdded = <<>> /\ settingsDoc.data = settings

NextDashboard ==
  \/ (AtEdge /\ DashboardTimerEvent)
  \/ (Quiet /\ SettingsUntouched /\ DashboardTaskEvent)
  \/ (Quiet /\ TasksUntouched /\ DashboardSettingsEvent)
  \/ DashboardTick

SpecDashboard == InitDashboard /\ [][NextDashboard]_vars

\* ------------------------------------------------------------------
\* ProgressTracker. In SpecProgress instants (calendar.now, the startTime of a
\* session) are whole hours since the epoch and calendar.zone is the client's
\* offset from UTC in hours, local time = UTC + zone.

HoursPerDay == 24
TimeRanges == {"week", "month"}
\* startDate.setDate(startDate.getDate() - 6), or - 29
DaysBack(range) == IF range = "week" THEN 6 ELSE 29

\* new Date(now.getFullYear(), now.getMonth(), now.getDate()): the instant of
\* the local midnight that began the local day of t
LocalDay(t, zone) == (t + zone) \div HoursPerDay
Today(t, zone) == LocalDay(t, zone) * HoursPerDay - zone

\* d.toISOString().split('T')[0]: the calendar day of the instant in UTC
DateKey(t) == t \div HoursPerDay

\* new Date(date).toLocaleDateString(...): the key read back as UTC midnight and
\* shown as a local day, the weekday of it in the week view
DateLabel(key, range, zone) ==
  LET day == LocalDay(key * HoursPerDay, zone)
  IN IF range = "week" THEN day % 7 ELSE day

\* sessions.filter(... sessionDate >= startDate && session.type === 'work')
FilteredSessions(ss, startDate) ==
  SelectSeq(ss, LAMBDA x : x.startTime >= startDate /\ x.type = "work")

\* the keys of dateMap in insertion order: one per day of the loop from
\* startDate to today, then the key of each session that is not there yet
RECURSIVE KeysWith(_, _)
KeysWith(keys, ss) ==
  IF ss = <<>> THEN keys
  ELSE LET key == DateKey(Head(ss).startTime)
       IN KeysWith(IF \E k \in 1..Len(keys) : keys[k] = key THEN keys
                   ELSE Append(keys, key),
                   Tail(ss))

RECURSIVE TotalDuration(_)
TotalDuration(ss) == IF ss = <<>> THEN 0 ELSE Head(ss).duration + TotalDuration(Tail(ss))

\* taskStatsArray: a task's sessions counted, tasks without one dropped, and the
\* stable sort by count, highest first
RECURSIVE SortByCount(_)
SortByCount(stats) ==
  IF stats = <<>> THEN <<>>
  ELSE LET rest == SortByCount(SubSeq(stats, 1, Len(stats) - 1))
           t == stats[Len(stats)]
           n == Cardinality({k \in 1..Len(rest) :
                               rest[k].pomodorosCompleted >= t.pomodorosCompleted})
       IN SubSeq(rest, 1, n) \o <<t>> \o SubSeq(rest, n + 1, Len(rest))

TaskStats(ts, filtered) ==
  LET of(id) == SelectSeq(filtered, LAMBDA x : x.taskId = id)
      all == [k \in 1..Len(ts) |->
                [id |-> ts[k].id, pomodorosCompleted |-> Len(of(ts[k].id)),
                 totalDuration |-> TotalDuration(of(ts[k].id))]]
  IN SortByCount(SelectSeq(all, LAMBDA x : x.pomodorosCompleted > 0))

\* the effect on [sessions, tasks, timeRange, loading]: the state of the
\* component after it has run with sessions ss and tasks ts
Aggregated(p, ss, ts) ==
  IF p.loading \/ Len(ss) = 0 THEN p
  ELSE LET today == Today(calendar.now, calendar.zone)
           startDate == today - DaysBack(p.timeRange) * HoursPerDay
           filtered == FilteredSessions(ss, startDate)
           days == [k \in 1..(DaysBack(p.timeRange) + 1) |->
                      DateKey(startDate + (k - 1) * HoursPerDay)]
           keys == KeysWith(days, filtered)
       IN [p EXCEPT
             !.totalPomodoros = Len(filtered),
             !.totalFocusTime = TotalDuration(filtered),
             !.chartData =
                [k \in 1..Len(keys) |->
                   [date |-> DateLabel(keys[k], p.timeRange, calendar.zone),
                    key |-> keys[k],
                    count |-> Len(SelectSeq(filtered,
                                  LAMBDA x : DateKey(x.startTime) = keys[k]))]],
             !.taskStats = TaskStats(ts, filtered)]

\* what the component renders below its header
ProgressView ==
  IF progress.loading THEN "spinner"
  ELSE IF Len(sessions) = 0 \/ Len(progress.chartData) = 0 THEN "noData"
  ELSE "charts"

\* orderBy('startTime', 'desc')
RECURSIVE NewestFirst(_)
NewestFirst(ss) ==
  IF ss = <<>> THEN <<>>
  ELSE LET rest == NewestFirst(SubSeq(ss, 1, Len(ss) - 1))
           t == ss[Len(ss)]
           n == Cardinality({k \in 1..Len(rest) : rest[k].startTime >= t.startTime})
       IN SubSeq(rest, 1, n) \o <<t>> \o SubSeq(rest, n + 1, Len(rest))

\* fetchSessions of the page's usePomodoroSessions settled, and the effect
ProgressSessionsFetched(ok) ==
  /\ progress.loading
  /\ IF ok
       THEN /\ sessions' = NewestFirst(SelectSeq(storeSessions,
                                                 LAMBDA x : x.userId = currentUser))
            /\ UNCHANGED sessionError
       ELSE /\ sessionError' = TRUE
            /\ UNCHANGED sessions
  /\ progress' = Aggregated([progress EXCEPT !.loading = FALSE], sessions', tasks)
  /\ lastOp' = [op |-> "sessionsFetched", ok |-> ok]
  /\ UNCHANGED <<timerVars, currentUser, storeSessions, storeTasks, taskVars,
                 settingsVars, calendar, now, workDone, interfered>>

\* fetchTasks of the page's useTasks, which runs once after the mount, settled
\* (the user has a task, so the list is empty until then), and the effect
ProgressTasksFetched ==
  /\ tasks = <<>>
  /\ tasks' = StoreList({id \in TaskIds : storeTasks[id].exists})
  /\ progress' = Aggregated(progress, sessions, tasks')
  /\ lastOp' = [op |-> "tasksFetched"]
  /\ UNCHANGED <<timerVars, sessionVars, storeTasks, taskError, pending, filter,
                 nextTaskId, reorderObs, settingsVars, calendar, now, workDone,
                 interfered>>

\* the Week and Month buttons, and the effect
SetTimeRange(range) ==
  /\ progress' = Aggregated([progress EXCEPT !.timeRange = range], sessions, tasks)
  /\ lastOp' = [op |-> "setTimeRange", range |-> range]
  /\ UNCHANGED <<timerVars, sessionVars, storeTasks, taskVars, settingsVars,
                 calendar, now, workDone, interfered>>

\* a work session of the user's task 1, 25 minutes long, started at hour t
ProgressSession(id, t) ==
  [id |-> id, exists |-> TRUE, taskId |-> 1, startTime |-> t, endTime |-> t,
   duration |-> 25 * SecondsPerMinute, type |-> "work", userId |-> User]

\* the page opens at one of three hours of local day BaseDay
BaseDay == 40
LocalHours == {1, 12, 23}
Zones == {-10, 0, 10}
\* how long before the page is opened a stored session started, in hours
SessionAges == {2, 26, 6 * HoursPerDay + 3, 20 * HoursPerDay}

InitProgress ==
  /\ settings = SavedSettings
  /\ timeLeft = Duration("work", settings)
  /\ isActive = FALSE
  /\ mode = "work"
  /\ selectedTaskId = NoTask
  /\ completedPomodoros = 0
  /\ startTimeRef = NoTime
  /\ timerIdRef = NoTimer
  /\ handlers = <<>>
  /\ storeTasks = [t \in TaskIds |-> IF t = 1 THEN TimerTask ELSE NoDoc]
  /\ timerTasks = <<>>
  /\ sessions = <<>>
  /\ sessionError = FALSE
  /\ currentUser = User
  /\ \E z \in Zones, h \in LocalHours :
       calendar = [now |-> BaseDay * HoursPerDay + h - z, zone |-> z]
  /\ \E ages \in SUBSET SessionAges :
       /\ Cardinality(ages) <= MaxProgressSessions
       /\ \E order \in [1..Cardinality(ages) -> ages] :
            /\ \A a, b \in 1..Cardinality(ages) : a < b => order[a] > order[b]
            /\ storeSessions = [k \in 1..Cardinality(ages) |->
                                  ProgressSession(k, calendar.now - order[k])]
  /\ tasks = <<>>
  /\ taskError = FALSE
  /\ pending = <<>>
  /\ filter = "all"
  /\ nextTaskId = 2
  /\ reorderObs = NoObs
  /\ now = 0
  /\ lastOp = [op |-> "init"]
  /\ workDone = 0
  /\ interfered = FALSE
  /\ settingsDoc = [exists |-> TRUE, data |-> settings]
  /\ settingsAdded = <<>>
  /\ settingsFetch = IdleFetch
  /\ dialog = NoDialog
  /\ progress = [NoProgress EXCEPT !.loading = TRUE]

NextProgress ==
  \/ \E ok \in BOOLEAN : ProgressSessionsFetched(ok)
  \/ ProgressTasksFetched
  \/ \E range \in TimeRanges : SetTimeRange(range)

SpecProgress == InitProgress /\ [][NextProgress]_vars

\* C13: when the user has no session at all, the week view has chart data of
\* seven buckets, each 0.
C13_ZeroSessionsSevenBuckets ==
  (/\ ~progress.loading /\ ~sessionError
   /\ progress.timeRange = "week" /\ storeSessions = <<>>)
    => /\ Len(progress.chartData) = DaysBack("week") + 1
       /\ \A k \in 1..Len(progress.chartData) : progress.chartData[k].count = 0

\* C11: when addSession finds no task document for the session's taskId (the
\* store calls themselves succeeding), it returns the session it has stored,
\* creates or changes no task document and sets no error.
C11_MissingTaskStillRecorded ==
  [][(lastOp'.op \in AfterOps /\ lastOp'.step = "getDoc" /\ ~lastOp'.threw)
       => /\ ~storeTasks[lastOp'.session.taskId].exists
          /\ lastOp'.result = "session"
          /\ \E k \in 1..Len(storeSessions') :
               storeSessions'[k] = [id |-> k] @@ lastOp'.session
          /\ storeSessions' = storeSessions
          /\ storeTasks' = storeTasks
          /\ sessionError' = sessionError]_vars

C11_Witness ==
  /\ lastOp.op = "afterWork" /\ lastOp.step = "getDoc" /\ lastOp.result = "session"
  /\ ~storeTasks[lastOp.session.taskId].exists
  /\ lastOp.session.taskId = selectedTaskId
  /\ Len(storeSessions) = 1 /\ storeSessions[1].taskId = lastOp.session.taskId
  /\ ~sessionError

\* TaskHistory: the tasks its useTasks instance fetches, and the title it
\* shows for a session, taskMap[session.taskId]?.title || 'Unknown Task'
HistoryTasks == StoreList({t \in TaskIds : storeTasks[t].exists})
HistoryTitle(ts, session) ==
  IF \E k \in 1..Len(ts) : ts[k].id = session.taskId /\ ts[k].title # ""
    THEN (ts[CHOOSE k \in 1..Len(ts) : ts[k].id = session.taskId]).title
    ELSE "Unknown Task"

\* C12: stored sessions are append-only: no step of the timer, the task
\* manager or the settings dialog changes or removes one; a session whose
\* task has been deleted keeps its taskId and is shown as 'Unknown Task'.
C12_SessionsAppendOnly ==
  /\ [][/\ Len(storeSessions') >= Len(storeSessions)
        /\ SubSeq(storeSessions', 1, Len(storeSessions)) = storeSessions]_vars
  /\ [](\A k \in 1..Len(storeSessions) :
          ~storeTasks[storeSessions[k].taskId].exists
            => HistoryTitle(HistoryTasks, storeSessions[k]) = "Unknown Task")

C12_Witness ==
  /\ lastOp.op = "deleteSettled" /\ lastOp.ok
  /\ Len(storeSessions) = 1
  /\ storeSessions[1].taskId = 1
  /\ ~storeTasks[1].exists
  /\ Len(HistoryTasks) = 1

\* the documents of the userSettings collection that belong to the user
SettingsRecords ==
  (IF settingsDoc.exists THEN 1 ELSE 0)
    + Cardinality({k \in 1..Len(settingsAdded) : settingsAdded[k].userId = currentUser})

\* C14: the userSettings collection never holds more than one record of the
\* user, whatever fetchSettings and updateSettings calls have run.
C14_OneSettingsRecord == SettingsRecords <= 1

\* the ranges the settings dialog accepts
InRange(f) ==
  /\ f.workDuration >= 1 /\ f.shortBreakDuration >= 1
  /\ f.longBreakDuration >= 1 /\ f.longBreakInterval >= 1
  /\ f.workDuration <= 120 /\ f.shortBreakDuration <= 60 /\ f.longBreakDuration <= 120

\* C18: Save with a value out of range sets the inline error and issues no
\* store write; the stored settings and the settings in memory (the timer's
\* and the dialog's) stay as they were, and the dialog stays open.
C18_InvalidSaveRejected ==
  [][(lastOp'.op = "save" /\ ~InRange(lastOp'.form))
       => /\ dialog'.error # ""
          /\ dialog'.save.pc = "idle" /\ ~dialog'.isSaving
          /\ dialog'.open
          /\ settingsDoc' = settingsDoc /\ settingsAdded' = settingsAdded
          /\ settings' = settings /\ dialog'.settings = dialog.settings]_vars

C18_Witness ==
  /\ lastOp.op = "save"
  /\ lastOp.form.shortBreakDuration > 60
  /\ lastOp.form.workDuration = CodeDefaults.workDuration
  /\ dialog.error = "tooLong"

\* C20: after a save of the settings dialog has succeeded while the timer is
\* not running, the countdown is the saved duration of the current mode.
C20_SaveRebasesCountdown ==
  (lastOp.op = "saved" /\ lastOp.ok /\ ~isActive)
    => timeLeft = Duration(mode, lastOp.saved)

\* C21: while the timer is running (and stays running), a change of the
\* settings the timer sees leaves the countdown alone: timeLeft changes only
\* by the decrement of a tick.
C21_RunningCountdownKept ==
  [][(isActive /\ isActive')
       => \/ timeLeft' = timeLeft
          \/ (lastOp'.op = "tick" /\ timeLeft' = timeLeft - 1)]_vars

\* an update or a reorder has just been issued and awaits the store
Issued ==
  /\ Len(pending') = Len(pending) + 1
  /\ pending'[Len(pending')].kind \in {"update", "reorder"}
\* the list with the awaited change applied
Applied(op, ts) ==
  IF op.kind = "update"
    THEN [k \in 1..Len(ts) |-> IF ts[k].id = op.id THEN Merge(ts[k], op.data) ELSE ts[k]]
    ELSE op.list
SettledOps == {"updateSettled", "reorderSettled"}

C23_BucketPerLocalDay ==
  (~progress.loading /\ ~sessionError /\ sessions # <<>>)
    => LET zone == calendar.zone
           first == LocalDay(calendar.now, zone) - DaysBack(progress.timeRange)
           chart == progress.chartData
       IN /\ Len(chart) = DaysBack(progress.timeRange) + 1
          /\ \A k \in 1..Len(chart) :
               /\ chart[k].date = IF progress.timeRange = "week"
                                    THEN (first + k - 1) % 7 ELSE first + k - 1
               /\ chart[k].count =
                    Cardinality({i \in 1..Len(sessions) :
                       /\ sessions[i].type = "work"
                       /\ LocalDay(sessions[i].startTime, zone) = first + k - 1})

\* C25: the timer never runs in work mode without a selected task.
C25_WorkNeedsTask == (isActive /\ mode = "work") => selectedTaskId # NoTask

\* C26: a session is written, and the completed count is incremented, only by
\* the completion of a countdown that came down to zero, never by the
\* completion that a start pressed at zero sets off for the same interval.
C26_OneRecordPerZero ==
  [][(\/ lastOp'.op = "sessionStored"
      \/ (lastOp'.op \in AfterOps /\ completedPomodoros' # completedPomodoros))
       => lastOp'.from = 1]_vars

\* the ids of the records of a list
DocIds(list) == {list[k].id : k \in 1..Len(list)}

\* C30: when addSession returns null, the store holds no session record
\* written by that call and the in-memory session list does not hold one.
C30_NullLeavesNothing ==
  [][(lastOp'.op \in AfterOps /\ lastOp'.result = "null")
       => /\ lastOp'.docRef \notin DocIds(storeSessions')
          /\ lastOp'.docRef \notin DocIds(sessions')]_vars

\* what the claims compare of a task
Shown(t) == [id |-> t.id, title |-> t.title, completed |-> t.completed, order |-> t.order]

\* C27: once every task operation issued has completed, and none has failed,
\* the in-memory list holds exactly the stored tasks, each with the stored
\* completed flag, title and order.
C27_ListMatchesStore ==
  (pending = <<>> /\ ~taskError)
    => /\ {Shown(tasks[k]) : k \in 1..Len(tasks)}
            = {Shown(storeTasks[t]) : t \in {u \in TaskIds : storeTasks[u].exists}}
       /\ Len(tasks) = Cardinality({u \in TaskIds : storeTasks[u].exists})

\* fetchSettings of a hook that has just mounted (its state holds the code's
\* defaults): the settings it leaves in the state when getDoc resolves
FetchSettings == IF settingsDoc.exists THEN settingsDoc.data ELSE CodeDefaults

\* C28: when updateSettings(s) has returned true, a fetchSettings that follows
\* it yields s, whether the settings record existed before the save or not.
C28_SavedSettingsReadBack ==
  [][(lastOp'.op = "saved" /\ lastOp'.ok) => FetchSettings' = lastOp'.saved]_vars

\* ------------------------------------------------------------------
\* SpecClock: the timer page with the wall clock tied to the interval: each
\* interval callback comes one second after the one before it (or after the
\* start). Time that passes while the timer is paused or a completion awaits
\* only lengthens a recorded interval and is left out.

\* the interval callback, one second of wall-clock time having passed
TickSecond ==
  /\ timerIdRef.live
  /\ now + MsPerSecond <= MaxClock
  /\ now' = now + MsPerSecond
  /\ IF timeLeft <= 1
       THEN /\ timeLeft' = 0
            /\ isActive' = FALSE
            /\ timerIdRef' = NoTimer
            /\ handlers' = Append(handlers,
                 [pc |-> "audio", cl |-> timerIdRef, session |-> NoDoc, read |-> 0,
                  docRef |-> 0,
                  at |-> [mode |-> mode, task |-> selectedTaskId, from |-> timeLeft]])
            /\ lastOp' = [op |-> "zero"]
       ELSE /\ timeLeft' = timeLeft - 1
            /\ lastOp' = [op |-> "tick"]
            /\ UNCHANGED <<isActive, timerIdRef, handlers>>
  /\ UNCHANGED <<mode, selectedTaskId, completedPomodoros, startTimeRef, settings,
                 timerTasks, sessionVars, storeTasks, taskVars, progressVars, settingsVars, workDone, interfered>>

ClockTick ==
  (timeLeft > 1 \/ (handlers = <<>> /\ workDone < MaxPomodoros)) /\ TickSecond

NextClock ==
  \/ (AtEdge /\ TimerEvent)
  \/ ClockTick

SpecClock == InitTimer /\ [][NextClock]_vars

\* C29: every recorded work session spans at least the work countdown:
\* endTime - startTime is no less than workDuration * 60 seconds.
C29_SessionCoversCountdown ==
  \A k \in 1..Len(storeSessions) :
    storeSessions[k].endTime - storeSessions[k].startTime
      >= settings.workDuration * SecondsPerMinute * MsPerSecond

\* ------------------------------------------------------------------
\* SpecLive: countdowns left to themselves. The user picks a task and a
\* mode and presses start only while the timer is stopped and no completion
\* is in flight, and touches nothing until the completion has ended. The
\* hooks return early without a user (useFirestore.ts:51, 191, 222); the
\* page is taken both with one and without one, and without one no task
\* was fetched. The interval fires every second while it is live, and
\* audio.play() and every store call settle, with either outcome.

InitLive ==
  /\ \E k \in 1..MaxInterval :
       settings = [SavedSettings EXCEPT !.longBreakInterval = k]
  /\ timeLeft = Duration("work", settings)
  /\ isActive = FALSE
  /\ mode = "work"
  /\ selectedTaskId = NoTask
  /\ completedPomodoros = 0
  /\ startTimeRef = NoTime
  /\ timerIdRef = NoTimer
  /\ handlers = <<>>
  /\ storeTasks = [t \in TaskIds |-> IF t = 1 THEN TimerTask ELSE NoDoc]
  /\ sessions = <<>>
  /\ sessionError = FALSE
  /\ currentUser \in {User, NoUser}
  /\ timerTasks = IF currentUser = NoUser THEN <<>> ELSE <<TimerTask>>
  /\ storeSessions = <<>>
  /\ tasks = <<>>
  /\ taskError = FALSE
  /\ pending = <<>>
  /\ filter = "all"
  /\ nextTaskId = 2
  /\ reorderObs = NoObs
  /\ now = 0
  /\ lastOp = [op |-> "init"]
  /\ workDone = 0
  /\ interfered = FALSE
  /\ settingsDoc = [exists |-> TRUE, data |-> settings]
  /\ settingsAdded = <<>>
  /\ settingsFetch = IdleFetch
  /\ dialog = NoDialog
  /\ progress = NoProgress
  /\ calendar = [now |-> 0, zone |-> 0]

LiveUser ==
  /\ ~isActive /\ handlers = <<>> /\ workDone < MaxLiveSessions
  /\ \/ ToggleTimer
     \/ \E m \in Modes, c \in BOOLEAN : SwitchMode(m, c)
     \/ \E t \in {NoTask} \cup TaskIds : SelectTask(t)

LiveAudio == \E i \in 1..Len(handlers) : AfterAudio(i)
LiveAddDoc == \E i \in 1..Len(handlers), ok \in BOOLEAN : AddDocSettled(i, ok)
LiveGetDoc == \E i \in 1..Len(handlers), ok \in BOOLEAN : GetDocSettled(i, ok)
LiveUpdateDoc == \E i \in 1..Len(handlers), ok \in BOOLEAN : UpdateDocSettled(i, ok)

NextLive ==
  \/ LiveUser
  \/ Tick
  \/ LiveAudio
  \/ LiveAddDoc
  \/ LiveGetDoc
  \/ LiveUpdateDoc

SpecLive ==
  /\ InitLive /\ [][NextLive]_vars
  /\ WF_vars(Tick) /\ WF_vars(LiveAudio) /\ WF_vars(LiveAddDoc)
  /\ WF_vars(LiveGetDoc) /\ WF_vars(LiveUpdateDoc)

\* the state handleTimerComplete leaves behind for a countdown of mode m
Finished(m) ==
  /\ ~isActive /\ handlers = <<>> /\ lastOp.op \in AfterOps
  /\ timeLeft = Duration(mode, settings)
  /\ IF m = "work" THEN mode \in {"shortBreak", "longBreak"} ELSE mode = "work"

\* C24: a countdown that is running and left alone comes to its end: the
\* timer stops and the mode has advanced, from work to a break and from a
\* break to work, whatever the session write did and with or without a user.
C24_CountdownFinishes ==
  \A m \in Modes : (isActive /\ mode = m) ~> Finished(m)

\* a work countdown whose session write was rejected has ended in a break, and
\* so has a break countdown of a page without a user in work mode
C24_Witness ==
  /\ ~isActive /\ handlers = <<>>
  /\ \/ lastOp.op = "afterWork" /\ lastOp.step = "addDoc" /\ lastOp.threw
        /\ mode # "work"
     \/ lastOp.op = "afterBreak" /\ currentUser = NoUser /\ mode = "work"

====
